---------------------------- MODULE Spec2Model ----------------------------
(***************************************************************************)
(* Model of roll-w/go-calculator: pkg/calculator (Evaluator and the        *)
(* operator registry).                                                     *)
(*                                                                         *)
(* An input string is a sequence of one-character strings.  float64 values *)
(* are modelled as exact rationals; a value the model does not compute     *)
(* (an irrational function value, an infinity, a NaN, a magnitude beyond   *)
(* MaxMagnitude) is kept as the closed term that denotes it.  IEEE         *)
(* rounding is outside the model.                                          *)
(***************************************************************************)
EXTENDS Integers, Sequences, FiniteSets, TLC

(***************************************************************************)
(* Bounds of the model                                                     *)
(***************************************************************************)
MaxLen == 4
MaxDivLen == 5
MaxSpaceLex == 3
MaxSpaces == 2
MaxRpnLen == 5
MaxMagnitude == 10000
MaxExponent == 16

(***************************************************************************)
(* float64 values                                                          *)
(***************************************************************************)
Abs(x) == IF x < 0 THEN -x ELSE x

RECURSIVE GCD(_, _)
GCD(a, b) == IF b = 0 THEN a ELSE GCD(b, a % b)

\* the rational n/d, d # 0, in lowest terms with a positive denominator
Rat(n, d) ==
    LET g == GCD(Abs(n), Abs(d))
        s == IF d < 0 THEN -1 ELSE 1
    IN  [k |-> "rat", n |-> s * (n \div g), d |-> s * (d \div g), op |-> "", args |-> <<>>]

\* the float64 denoted by op applied to args, left uncomputed
Term(op, args) == [k |-> "term", n |-> 0, d |-> 1, op |-> op, args |-> args]

Zero == Rat(0, 1)
Num(n) == Rat(n, 1)

IsRat(v) == v.k = "rat"
\* a rational small enough for the model to compute with
Exact(v) == IsRat(v) /\ Abs(v.n) <= MaxMagnitude /\ v.d <= MaxMagnitude
IsInteger(v) == IsRat(v) /\ v.d = 1
\* Go's right == 0 (terms are treated as nonzero)
IsZero(v) == IsRat(v) /\ v.n = 0

\* Go's int(x) for a rational: truncation toward zero
Trunc(v) == IF v.n >= 0 THEN v.n \div v.d ELSE -((-v.n) \div v.d)

(***************************************************************************)
(* operator.go: precedence classes and operator types                      *)
(***************************************************************************)
Normal == 0
Middle == 1
High == 2

Infix == 0
Function == 1
Suffix == 2

\* the keys of the evaluators map of NewOperatorEvaluatorFactory
Operators ==
    { <<"+">>, <<"-">>, <<"*">>, <<"/">>, <<"%">>, <<"^">>, <<"!">>,
      <<"s", "q", "r", "t">>, <<"l", "o", "g">>, <<"s", "i", "n">>,
      <<"c", "o", "s">>, <<"t", "a", "n">> }

IsValid(operator) == operator \in Operators

additionEvaluate(left, right) ==
    IF Exact(left) /\ Exact(right)
    THEN [val |-> Rat(left.n * right.d + right.n * left.d, left.d * right.d), err |-> ""]
    ELSE [val |-> Term("+", <<left, right>>), err |-> ""]

subtractionEvaluate(left, right) ==
    IF Exact(left) /\ Exact(right)
    THEN [val |-> Rat(left.n * right.d - right.n * left.d, left.d * right.d), err |-> ""]
    ELSE [val |-> Term("-", <<left, right>>), err |-> ""]

multiplicationEvaluate(left, right) ==
    IF Exact(left) /\ Exact(right)
    THEN [val |-> Rat(left.n * right.n, left.d * right.d), err |-> ""]
    ELSE [val |-> Term("*", <<left, right>>), err |-> ""]

divisionEvaluateUnchecked(left, right) ==
    IF Exact(left) /\ Exact(right) /\ right.n # 0
    THEN [val |-> Rat(left.n * right.d, left.d * right.n), err |-> ""]
    ELSE [val |-> Term("/", <<left, right>>), err |-> ""]

divisionEvaluate(left, right) ==
    IF IsZero(right)
    THEN [val |-> Zero, err |-> "division by zero"]
    ELSE IF Exact(left) /\ Exact(right)
    THEN [val |-> Rat(left.n * right.d, left.d * right.n), err |-> ""]
    ELSE [val |-> Term("/", <<left, right>>), err |-> ""]

\* math.Mod: left - right * trunc(left / right), NaN for right = 0
remainderEvaluate(left, right) ==
    IF Exact(left) /\ Exact(right) /\ right.n # 0
    THEN LET q == Trunc(Rat(left.n * right.d, left.d * right.n))
         IN  [val |-> Rat(left.n * right.d - q * right.n * left.d, left.d * right.d),
              err |-> ""]
    ELSE [val |-> Term("%", <<left, right>>), err |-> ""]

\* b^e for e >= 0 by repeated multiplication; -1 once a power of |b| leaves the model
RECURSIVE PowNat(_, _)
PowNat(b, e) ==
    IF e = 0 THEN 1
    ELSE LET p == PowNat(b, e - 1)
         IN  IF p < 0 \/ p * b > MaxMagnitude THEN -1 ELSE p * b

\* math.Pow for an integer exponent
powerEvaluate(left, right) ==
    IF Exact(left) /\ IsInteger(right) /\ Abs(right.n) <= MaxExponent
    THEN LET e == Abs(right.n)
             pn == PowNat(Abs(left.n), e)
             pd == PowNat(left.d, e)
             sg == IF left.n < 0 /\ e % 2 = 1 THEN -1 ELSE 1
         IN  IF pn < 0 \/ pd < 0 \/ (right.n < 0 /\ left.n = 0)
             THEN [val |-> Term("^", <<left, right>>), err |-> ""]
             ELSE IF right.n >= 0
             THEN [val |-> Rat(sg * pn, pd), err |-> ""]
             ELSE [val |-> Rat(sg * pd, pn), err |-> ""]
    ELSE [val |-> Term("^", <<left, right>>), err |-> ""]

\* for i := 1; i <= n; i++ { result *= float64(i) }; -1 once result leaves the model
RECURSIVE FactorialLoop(_, _, _)
FactorialLoop(i, n, result) ==
    IF i > n THEN result
    ELSE IF result > MaxMagnitude THEN -1
    ELSE FactorialLoop(i + 1, n, result * i)

factorialEvaluate(left, right) ==
    IF Exact(left)
    THEN LET f == FactorialLoop(1, Trunc(left), 1)
         IN  IF f < 0 THEN [val |-> Term("!", <<left>>), err |-> ""]
             ELSE [val |-> Num(f), err |-> ""]
    ELSE [val |-> Term("!", <<left>>), err |-> ""]

\* the integer square root of a perfect square, -1 otherwise
IntSqrt(n) ==
    IF \E r \in 0..100 : r * r = n THEN CHOOSE r \in 0..100 : r * r = n ELSE -1

sqrtEvaluate(left, right) ==
    IF Exact(left) /\ left.n >= 0 /\ IntSqrt(left.n) >= 0 /\ IntSqrt(left.d) >= 0
    THEN [val |-> Rat(IntSqrt(left.n), IntSqrt(left.d)), err |-> ""]
    ELSE [val |-> Term("sqrt", <<left>>), err |-> ""]

logarithmEvaluate(left, right) ==
    IF IsRat(left) /\ left.n = 1 /\ left.d = 1
    THEN [val |-> Zero, err |-> ""]
    ELSE [val |-> Term("log", <<left>>), err |-> ""]

sinEvaluate(left, right) ==
    IF IsZero(left) THEN [val |-> Zero, err |-> ""]
    ELSE [val |-> Term("sin", <<left>>), err |-> ""]

cosEvaluate(left, right) ==
    IF IsZero(left) THEN [val |-> Num(1), err |-> ""]
    ELSE [val |-> Term("cos", <<left>>), err |-> ""]

tanEvaluate(left, right) ==
    IF IsZero(left) THEN [val |-> Zero, err |-> ""]
    ELSE [val |-> Term("tan", <<left>>), err |-> ""]

\* OperatorEvaluator.Evaluate of the evaluator Create(operator) returns
Evaluate(operator, left, right) ==
    CASE operator = <<"+">> -> additionEvaluate(left, right)
      [] operator = <<"-">> -> subtractionEvaluate(left, right)
      [] operator = <<"*">> -> multiplicationEvaluate(left, right)
      [] operator = <<"/">> -> divisionEvaluate(left, right)
      [] operator = <<"%">> -> remainderEvaluate(left, right)
      [] operator = <<"^">> -> powerEvaluate(left, right)
      [] operator = <<"!">> -> factorialEvaluate(left, right)
      [] operator = <<"s", "q", "r", "t">> -> sqrtEvaluate(left, right)
      [] operator = <<"l", "o", "g">> -> logarithmEvaluate(left, right)
      [] operator = <<"s", "i", "n">> -> sinEvaluate(left, right)
      [] operator = <<"c", "o", "s">> -> cosEvaluate(left, right)
      [] operator = <<"t", "a", "n">> -> tanEvaluate(left, right)

\* OperatorEvaluator.Precedence of the evaluator Create(operator) returns
Precedence(operator) ==
    CASE operator \in {<<"+">>, <<"-">>, <<"*">>} -> Normal
      [] operator \in {<<"/">>, <<"%">>} -> Middle
      [] OTHER -> High

\* OperatorEvaluator.Type of the evaluator Create(operator) returns
Type(operator) ==
    CASE operator \in {<<"+">>, <<"-">>, <<"*">>, <<"/">>, <<"%">>, <<"^">>} -> Infix
      [] operator = <<"!">> -> Suffix
      [] OTHER -> Function

(***************************************************************************)
(* evaluator.go: tokens and the tokenizer                                  *)
(***************************************************************************)
number == "NUMBER"
operator == "OPERATOR"
leftParen == "LEFT_PAREN"
rightParen == "RIGHT_PAREN"

\* uint16(x)
Uint16(x) == x % 65536

Token(t, v, s, e) == [tokenType |-> t, value |-> v, start |-> Uint16(s), end |-> Uint16(e)]

Digits == {"0", "1", "2", "3", "4", "5", "6", "7", "8", "9"}

isNumber(c) == c \in Digits \/ c = "."
isParen(c) == c = "(" \/ c = ")"
isLeftParen(c) == c = "("

\* the loop of symbolSegments over op[i..]; i counts from 1, Go's i from 0.
\* The error "invalid operator: %s" is kept without the text it quotes.
RECURSIVE SegmentLoop(_, _, _, _, _)
SegmentLoop(op, index, i, operatorBuilder, tokens) ==
    IF i > Len(op)
    THEN IF Len(operatorBuilder) > 0
         THEN [tokens |-> <<>>, err |-> "invalid operator"]
         ELSE [tokens |-> tokens, err |-> ""]
    ELSE LET c == op[i]
             curOp == IF c # " " THEN Append(operatorBuilder, c) ELSE operatorBuilder
             tmpIdx == index + (i - 1)
         IN  IF IsValid(curOp)
             THEN SegmentLoop(op, index, i + 1, <<>>,
                              Append(tokens, Token(operator, curOp, index, tmpIdx)))
             ELSE IF c = " "
             THEN [tokens |-> <<>>, err |-> "invalid space(s) in number or operator"]
             ELSE SegmentLoop(op, index, i + 1, curOp, tokens)

symbolSegments(op, index) ==
    IF IsValid(op)
    THEN [tokens |-> <<Token(operator, op, index, index)>>, err |-> ""]
    ELSE SegmentLoop(op, index, 1, <<>>, <<>>)

\* The locals of tokenize: t.tokens, t.operatorBuilder, t.numberBuilder,
\* t.iterator, and t.err, the error tokenize is about to return ("" for nil).
visitNumber(t, index) ==
    IF Len(t.numberBuilder) = 0 THEN t
    ELSE [t EXCEPT !.tokens = Append(@, Token(number, t.numberBuilder, t.iterator, index)),
                   !.numberBuilder = <<>>,
                   !.iterator = index + Len(t.numberBuilder)]

visitOperator(t, index) ==
    IF Len(t.operatorBuilder) = 0 THEN t
    ELSE LET segments == symbolSegments(t.operatorBuilder, index)
         IN  IF segments.err # ""
             THEN [t EXCEPT !.operatorBuilder = <<>>, !.err = segments.err]
             ELSE [t EXCEPT !.operatorBuilder = <<>>,
                            !.tokens = @ \o segments.tokens,
                            !.iterator = @ + Len(t.operatorBuilder)]

\* a space that is skipped, flushing neither buffer
tokenizeSpaceSkipped(t, index) == [t EXCEPT !.iterator = @ + 1]

\* case cur == ' ': the space flushes the number, else the operator, else moves on
tokenizeSpace(t, index) ==
    IF Len(t.numberBuilder) > 0 THEN visitNumber(t, index)
    ELSE IF Len(t.operatorBuilder) > 0 THEN visitOperator(t, index)
    ELSE [t EXCEPT !.iterator = @ + 1]

\* one iteration of the loop of tokenize, on the character c at (0-based) index
tokenizeChar(t, c, index) ==
    IF isNumber(c)
    THEN visitOperator([t EXCEPT !.numberBuilder = Append(@, c)], index)
    ELSE IF isParen(c)
    THEN LET t2 == visitOperator(visitNumber(t, index), index)
         IN  IF t2.err # "" THEN t2
             ELSE [t2 EXCEPT !.tokens = Append(@, Token(IF isLeftParen(c) THEN leftParen
                                                          ELSE rightParen,
                                                        <<c>>, t2.iterator, index)),
                             !.iterator = @ + 1]
    ELSE IF c = " "
    THEN tokenizeSpace(t, index)
    ELSE LET t1 == visitNumber(t, index)
         IN  [t1 EXCEPT !.operatorBuilder = Append(@, c)]

\* the error validate returns, "" for nil
validate(tokens) ==
    IF Len(tokens) = 0 THEN "no tokens found"
    ELSE IF tokens[1].tokenType = operator THEN "expression cannot start with an operator"
    ELSE IF tokens[Len(tokens)].tokenType = operator
    THEN "expression cannot end with an operator"
    ELSE IF \E i \in 1..Len(tokens) - 1 :
               tokens[i].tokenType = number /\ tokens[i + 1].tokenType = number
    THEN "too much numbers without operator between them"
    ELSE ""

\* tokenize after its loop: the last flushes, then validate
tokenizeEnd(t, n) ==
    LET t2 == visitOperator(visitNumber(t, n), n)
    IN  IF t2.err # "" THEN t2
        ELSE [t2 EXCEPT !.err = validate(t2.tokens)]

TokenizeStart == [tokens |-> <<>>, operatorBuilder |-> <<>>, numberBuilder |-> <<>>,
                  iterator |-> 0, err |-> ""]

RECURSIVE TokenizeLoop(_, _, _)
TokenizeLoop(input, i, t) ==
    IF t.err # "" THEN t
    ELSE IF i > Len(input) THEN tokenizeEnd(t, Len(input))
    ELSE TokenizeLoop(input, i + 1, tokenizeChar(t, input[i], i - 1))

\* tokenize(input): [tokens, err], tokens nil when err is set
tokenize(input) ==
    LET t == TokenizeLoop(input, 1, TokenizeStart)
    IN  [tokens |-> IF t.err # "" THEN <<>> ELSE t.tokens, err |-> t.err]

(***************************************************************************)
(* evaluator.go: conversion to reverse Polish notation                     *)
(***************************************************************************)
\* case operator: the operators on top of the stack that the incoming one sends to result
RECURSIVE PopOperators(_, _, _)
PopOperators(stack, result, value) ==
    IF Len(stack) > 0
       /\ stack[Len(stack)].tokenType = operator
       /\ Precedence(value) <= Precedence(stack[Len(stack)].value)
    THEN PopOperators(SubSeq(stack, 1, Len(stack) - 1),
                      Append(result, stack[Len(stack)]), value)
    ELSE [stack |-> stack, result |-> result]

\* a right parenthesis that discards the operators it pops
RECURSIVE PopToLeftParenDropping(_, _)
PopToLeftParenDropping(stack, result) ==
    IF Len(stack) = 0 THEN [stack |-> stack, result |-> result]
    ELSE IF stack[Len(stack)].tokenType = leftParen
    THEN [stack |-> SubSeq(stack, 1, Len(stack) - 1), result |-> result]
    ELSE PopToLeftParenDropping(SubSeq(stack, 1, Len(stack) - 1), result)

\* case rightParen: pop to result until a left parenthesis is popped or the stack is empty
RECURSIVE PopToLeftParen(_, _)
PopToLeftParen(stack, result) ==
    IF Len(stack) = 0 THEN [stack |-> stack, result |-> result]
    ELSE LET top == stack[Len(stack)]
             rest == SubSeq(stack, 1, Len(stack) - 1)
         IN  IF top.tokenType = leftParen THEN [stack |-> rest, result |-> result]
             ELSE PopToLeftParen(rest, Append(result, top))

\* one iteration of the loop of toReversePolishNotation; r.stack, r.result are its locals
rpnToken(r, t) ==
    CASE t.tokenType = number -> [r EXCEPT !.result = Append(@, t)]
      [] t.tokenType = operator ->
            LET p == PopOperators(r.stack, r.result, t.value)
            IN  [stack |-> Append(p.stack, t), result |-> p.result]
      [] t.tokenType = leftParen -> [r EXCEPT !.stack = Append(@, t)]
      [] t.tokenType = rightParen -> PopToLeftParen(r.stack, r.result)

\* the loop after the input: [result, err]
RECURSIVE rpnEnd(_, _)
rpnEnd(stack, result) ==
    IF Len(stack) = 0 THEN [result |-> result, err |-> ""]
    ELSE LET top == stack[Len(stack)]
         IN  IF top.tokenType = leftParen \/ top.tokenType = rightParen
             THEN [result |-> <<>>, err |-> "mismatched parentheses"]
             ELSE rpnEnd(SubSeq(stack, 1, Len(stack) - 1), Append(result, top))

RECURSIVE RpnLoop(_, _, _)
RpnLoop(tokens, i, r) ==
    IF i > Len(tokens) THEN rpnEnd(r.stack, r.result)
    ELSE RpnLoop(tokens, i + 1, rpnToken(r, tokens[i]))

toReversePolishNotation(tokens) == RpnLoop(tokens, 1, [stack |-> <<>>, result |-> <<>>])

(***************************************************************************)
(* evaluator.go: evaluation                                                *)
(***************************************************************************)
DigitValue(c) ==
    CASE c = "0" -> 0 [] c = "1" -> 1 [] c = "2" -> 2 [] c = "3" -> 3 [] c = "4" -> 4
      [] c = "5" -> 5 [] c = "6" -> 6 [] c = "7" -> 7 [] c = "8" -> 8 [] c = "9" -> 9

\* the digits of a literal, its point dropped
DigitsOf(value) == SelectSeq(value, LAMBDA c : c # ".")

RECURSIVE Decimal(_)
Decimal(ds) ==
    IF Len(ds) = 0 THEN 0
    ELSE 10 * Decimal(SubSeq(ds, 1, Len(ds) - 1)) + DigitValue(ds[Len(ds)])

RECURSIVE Pow10(_)
Pow10(k) == IF k = 0 THEN 1 ELSE 10 * Pow10(k - 1)

\* the digits after the point
FractionLen(value) ==
    Len(value) - (CHOOSE i \in 1..Len(value) : value[i] = ".")

\* parseNumber: [val, err].  A literal is made of digits and points (isNumber).
\* Literals of more than 9 digits are beyond the model's integers and are kept
\* as terms, so Atoi's range error (return 0, nil) is not modelled.
parseNumber(value) ==
    IF Len(DigitsOf(value)) > 9
    THEN [val |-> [k |-> "term", n |-> 0, d |-> 1, op |-> "literal", args |-> value],
          err |-> ""]
    ELSE IF \E i \in 1..Len(value) : value[i] = "."
    THEN IF Len(value) - Len(DigitsOf(value)) = 1 /\ Len(DigitsOf(value)) > 0
         THEN [val |-> Rat(Decimal(DigitsOf(value)), Pow10(FractionLen(value))), err |-> ""]
         ELSE [val |-> Zero, err |-> "strconv.ParseFloat: invalid syntax"]
    ELSE [val |-> Num(Decimal(value)), err |-> ""]

Pop(stack, k) == SubSeq(stack, 1, Len(stack) - k)

\* case operator of the evaluation loop: [stack, err]
evalOperator(stack, value) ==
    IF Type(value) = Infix
    THEN IF Len(stack) < 2 THEN [stack |-> stack, err |-> "invalid expression"]
         ELSE LET right == stack[Len(stack)]
                  left == stack[Len(stack) - 1]
                  res == Evaluate(value, left, right)
              IN  IF res.err # "" THEN [stack |-> Pop(stack, 2), err |-> res.err]
                  ELSE [stack |-> Append(Pop(stack, 2), res.val), err |-> ""]
    ELSE \* Function and Suffix: one operand
         IF Len(stack) < 1 THEN [stack |-> stack, err |-> "invalid expression"]
         ELSE LET res == Evaluate(value, stack[Len(stack)], Zero)
              IN  IF res.err # "" THEN [stack |-> Pop(stack, 1), err |-> res.err]
                  ELSE [stack |-> Append(Pop(stack, 1), res.val), err |-> ""]

\* one iteration of the evaluation loop of EvaluateExpression: [stack, err]
evalToken(stack, t) ==
    IF t.tokenType = number
    THEN LET num == parseNumber(t.value)
         IN  IF num.err # "" THEN [stack |-> stack, err |-> num.err]
             ELSE [stack |-> Append(stack, num.val), err |-> ""]
    ELSE IF t.tokenType = operator
    THEN evalOperator(stack, t.value)
    ELSE [stack |-> stack, err |-> ""]

\* return stack[0], nil: an index out of range panics
evalEnd(stack) ==
    IF Len(stack) = 0
    THEN [result |-> Zero, err |-> "", panic |-> TRUE, stack |-> stack]
    ELSE [result |-> stack[1], err |-> "", panic |-> FALSE, stack |-> stack]

Failure(e) == [result |-> Zero, err |-> e, panic |-> FALSE, stack |-> <<>>]

RECURSIVE EvalLoop(_, _, _)
EvalLoop(polishNotation, i, stack) ==
    IF i > Len(polishNotation) THEN evalEnd(stack)
    ELSE LET e == evalToken(stack, polishNotation[i])
         IN  IF e.err # "" THEN Failure(e.err)
             ELSE EvalLoop(polishNotation, i + 1, e.stack)

\* EvaluateExpression(expression): result and err, or panic; stack is the operand
\* stack at the return
EvaluateExpression(expression) ==
    LET t == tokenize(expression)
    IN  IF t.err # "" THEN Failure(t.err)
        ELSE IF Len(t.tokens) = 0 THEN Failure("no tokens found")
        ELSE LET p == toReversePolishNotation(t.tokens)
             IN  IF p.err # "" THEN Failure(p.err)
                 ELSE EvalLoop(p.result, 1, <<>>)

(***************************************************************************)
(* One call of EvaluateExpression(input), a loop iteration per step.       *)
(*   pc        "tokenize", "toRPN", "evaluate", "done" (returned) or       *)
(*             "panic" (runtime panic)                                     *)
(*   index     the loop variable of the running loop                       *)
(*   tokens, operatorBuilder, numberBuilder, iterator   locals of tokenize *)
(*   rpnStack, polishNotation   stack and result of toReversePolishNotation*)
(*   stack     the operand stack of EvaluateExpression                     *)
(*   result, err   the values returned (err = "" is nil)                   *)
(*   ref, spacing  how input was written: ref is the expression before     *)
(*             spaces were put in, spacing says where they were put        *)
(***************************************************************************)
VARIABLES input, ref, spacing, pc, index, tokens, operatorBuilder, numberBuilder,
          iterator, rpnStack, polishNotation, stack, result, err

vars == <<input, ref, spacing, pc, index, tokens, operatorBuilder, numberBuilder,
          iterator, rpnStack, polishNotation, stack, result, err>>

\* the sequences over S of length at most n
SeqsUpTo(S, n) == UNION {[1..k -> S] : k \in 0..n}

RECURSIVE Concat(_)
Concat(ls) == IF Len(ls) = 0 THEN <<>> ELSE Head(ls) \o Concat(Tail(ls))

Spaces(k) == [i \in 1..k |-> " "]

Start(in, r, sp) ==
    /\ input = in
    /\ ref = r
    /\ spacing = sp
    /\ pc = "tokenize"
    /\ index = 0
    /\ tokens = <<>>
    /\ operatorBuilder = <<>>
    /\ numberBuilder = <<>>
    /\ iterator = 0
    /\ rpnStack = <<>>
    /\ polishNotation = <<>>
    /\ stack = <<>>
    /\ result = Zero
    /\ err = ""

\* return 0, e
Return(e) ==
    /\ pc' = "done"
    /\ err' = e
    /\ result' = Zero

TokenizeLocals == [tokens |-> tokens, operatorBuilder |-> operatorBuilder,
                   numberBuilder |-> numberBuilder, iterator |-> iterator, err |-> ""]

TokenizeChar ==
    /\ pc = "tokenize"
    /\ index < Len(input)
    /\ LET t == tokenizeChar(TokenizeLocals, input[index + 1], index)
       IN  /\ tokens' = t.tokens
           /\ operatorBuilder' = t.operatorBuilder
           /\ numberBuilder' = t.numberBuilder
           /\ iterator' = t.iterator
           /\ IF t.err # ""
              THEN Return(t.err) /\ UNCHANGED index
              ELSE index' = index + 1 /\ UNCHANGED <<pc, err, result>>
    /\ UNCHANGED <<input, ref, spacing, rpnStack, polishNotation, stack>>

TokenizeEnd ==
    /\ pc = "tokenize"
    /\ index = Len(input)
    /\ LET t == tokenizeEnd(TokenizeLocals, Len(input))
       IN  /\ tokens' = t.tokens
           /\ operatorBuilder' = t.operatorBuilder
           /\ numberBuilder' = t.numberBuilder
           /\ iterator' = t.iterator
           /\ IF t.err # ""
              THEN Return(t.err) /\ UNCHANGED index
              ELSE IF Len(t.tokens) = 0
              THEN Return("no tokens found") /\ UNCHANGED index
              ELSE pc' = "toRPN" /\ index' = 0 /\ UNCHANGED <<err, result>>
    /\ UNCHANGED <<input, ref, spacing, rpnStack, polishNotation, stack>>

RpnToken ==
    /\ pc = "toRPN"
    /\ index < Len(tokens)
    /\ LET r == rpnToken([stack |-> rpnStack, result |-> polishNotation], tokens[index + 1])
       IN  /\ rpnStack' = r.stack
           /\ polishNotation' = r.result
    /\ index' = index + 1
    /\ UNCHANGED <<input, ref, spacing, pc, tokens, operatorBuilder, numberBuilder,
                   iterator, stack, result, err>>

RpnEnd ==
    /\ pc = "toRPN"
    /\ index = Len(tokens)
    /\ LET r == rpnEnd(rpnStack, polishNotation)
       IN  /\ polishNotation' = r.result
           /\ IF r.err # ""
              THEN Return(r.err) /\ UNCHANGED <<index, rpnStack>>
              ELSE /\ pc' = "evaluate"
                   /\ index' = 0
                   /\ rpnStack' = <<>>
                   /\ UNCHANGED <<err, result>>
    /\ UNCHANGED <<input, ref, spacing, tokens, operatorBuilder, numberBuilder,
                   iterator, stack>>

EvalToken ==
    /\ pc = "evaluate"
    /\ index < Len(polishNotation)
    /\ LET e == evalToken(stack, polishNotation[index + 1])
       IN  /\ stack' = e.stack
           /\ IF e.err # ""
              THEN Return(e.err) /\ UNCHANGED index
              ELSE index' = index + 1 /\ UNCHANGED <<pc, err, result>>
    /\ UNCHANGED <<input, ref, spacing, tokens, operatorBuilder, numberBuilder,
                   iterator, rpnStack, polishNotation>>

EvalEnd ==
    /\ pc = "evaluate"
    /\ index = Len(polishNotation)
    /\ LET e == evalEnd(stack)
       IN  /\ pc' = IF e.panic THEN "panic" ELSE "done"
           /\ result' = e.result
           /\ err' = e.err
    /\ UNCHANGED <<input, ref, spacing, index, tokens, operatorBuilder, numberBuilder,
                   iterator, rpnStack, polishNotation, stack>>

Next ==
    \/ TokenizeChar
    \/ TokenizeEnd
    \/ RpnToken
    \/ RpnEnd
    \/ EvalToken
    \/ EvalEnd

(***************************************************************************)
(* Inputs                                                                  *)
(***************************************************************************)
\* the README's examples and the expressions the specification names
Examples ==
    { <<"2", "+", "2">>,
      <<"(", "1", "+", "2", ")", "*", "s", "q", "r", "t", "(", "4", ")", "-",
        "l", "o", "g", "(", "1", ")", "+", "3", "!", "*", "2", "^", "2">>,
      <<"1", "+", "2", "*", "3">>,
      <<"2", "-", "3", "*", "4">>,
      <<"s", "q", "r", "t", "(", "4", ")">>,
      <<"5", "!">>,
      <<"0", "!">>,
      <<"(", "1", "+", "2">>,
      <<"1", "+", "2", ")">>,
      <<"(", "1", ")", "(", "2", ")">>,
      <<"1", "/", "(", "2", "-", "2", ")">>,
      <<"2", "^", "s", "q", "r", "t", "(", "4", ")">>,
      <<"1", ".", "5", "+", "1", ".", "5">>,
      <<"1", ".", "2", ".", "3", "+", "1">> }

Lexemes ==
    { <<"0">>, <<"1">>, <<"2">>, <<"4">>, <<"+">>, <<"*">>, <<"/">>, <<"^">>, <<"!">>,
      <<"(">>, <<")">>, <<" ">>, <<"s", "q", "r", "t">>, <<"x">> }

Init ==
    \E in \in {Concat(ls) : ls \in SeqsUpTo(Lexemes, MaxLen)} \cup Examples :
        Start(in, in, "none")

Spec == Init /\ [][Next]_vars

\* Expressions over 0 1 2 / - ( ): every operand of / is computed exactly
DivLexemes == { <<"0">>, <<"1">>, <<"2">>, <<"/">>, <<"-">>, <<"(">>, <<")">> }

InitDiv ==
    \E in \in {Concat(ls) : ls \in SeqsUpTo(DivLexemes, MaxDivLen)} \cup Examples :
        Start(in, in, "none")

SpecDiv == InitDiv /\ [][Next]_vars

\* Expressions written with spaces.  ls is the expression as lexemes (a digit,
\* an operator name, a parenthesis); w spaces are put at the places G (place i is
\* before lexeme i, place Len(ls) + 1 is the end), or one space is put inside
\* the lexeme cut[1] after its first cut[2] characters.
SpaceLexemes == { <<"2">>, <<"4">>, <<"+">>, <<"(">>, <<")">>, <<"s", "q", "r", "t">> }

IsNumberLexeme(l) == \A i \in 1..Len(l) : isNumber(l[i])

RECURSIVE Spaced(_, _, _, _)
Spaced(ls, G, w, i) ==
    IF i > Len(ls) THEN (IF i \in G THEN Spaces(w) ELSE <<>>)
    ELSE (IF i \in G THEN Spaces(w) ELSE <<>>) \o ls[i] \o Spaced(ls, G, w, i + 1)

CutLexeme(ls, cut) ==
    [ls EXCEPT ![cut[1]] = SubSeq(@, 1, cut[2]) \o <<" ">> \o SubSeq(@, cut[2] + 1, Len(@))]

\* "inside" when a space separates two digits of one number, else "between"
SpacingOf(ls, G) ==
    IF G = {} THEN "none"
    ELSE IF \E i \in G : /\ 1 < i /\ i <= Len(ls)
                         /\ IsNumberLexeme(ls[i - 1]) /\ IsNumberLexeme(ls[i])
    THEN "inside"
    ELSE "between"

InitSpaces ==
    \E ls \in SeqsUpTo(SpaceLexemes, MaxSpaceLex) :
        \/ \E G \in SUBSET (1..Len(ls) + 1), w \in 1..MaxSpaces :
              Start(Spaced(ls, G, w, 1), Concat(ls), SpacingOf(ls, G))
        \/ \E j \in 1..Len(ls) : \E off \in 1..Len(ls[j]) - 1 :
              /\ ~IsNumberLexeme(ls[j])
              /\ Start(Concat(CutLexeme(ls, <<j, off>>)), Concat(ls), "inside")

SpecSpaces == InitSpaces /\ [][Next]_vars

(***************************************************************************)
(* Standard infix evaluation of an expression over integer literals,       *)
(* + - * / and parentheses: * and / bind tighter than + and -, equal       *)
(* precedence groups left to right.  [ok, val, next]; ok is FALSE for text *)
(* that is no such expression or that divides by zero.                     *)
(***************************************************************************)
NoParse == [ok |-> FALSE, val |-> Zero, next |-> 0]

RECURSIVE DigitsEnd(_, _)
DigitsEnd(s, i) == IF i <= Len(s) /\ s[i] \in Digits THEN DigitsEnd(s, i + 1) ELSE i

RECURSIVE StdExpr(_, _), StdExprRest(_, _, _), StdTerm(_, _), StdTermRest(_, _, _),
          StdFactor(_, _)
StdFactor(s, i) ==
    IF i > Len(s) THEN NoParse
    ELSE IF s[i] \in Digits
    THEN LET j == DigitsEnd(s, i)
         IN  IF j - i > 9 THEN NoParse
             ELSE [ok |-> TRUE, val |-> Num(Decimal(SubSeq(s, i, j - 1))), next |-> j]
    ELSE IF s[i] = "("
    THEN LET e == StdExpr(s, i + 1)
         IN  IF e.ok /\ e.next <= Len(s) /\ s[e.next] = ")"
             THEN [e EXCEPT !.next = @ + 1]
             ELSE NoParse
    ELSE NoParse

StdTermRest(s, acc, i) ==
    IF i <= Len(s) /\ s[i] \in {"*", "/"}
    THEN LET f == StdFactor(s, i + 1)
         IN  IF ~f.ok \/ (s[i] = "/" /\ IsZero(f.val)) \/ ~Exact(acc) \/ ~Exact(f.val)
             THEN NoParse
             ELSE IF s[i] = "*"
             THEN StdTermRest(s, Rat(acc.n * f.val.n, acc.d * f.val.d), f.next)
             ELSE StdTermRest(s, Rat(acc.n * f.val.d, acc.d * f.val.n), f.next)
    ELSE [ok |-> TRUE, val |-> acc, next |-> i]

StdTerm(s, i) ==
    LET f == StdFactor(s, i) IN IF f.ok THEN StdTermRest(s, f.val, f.next) ELSE NoParse

StdExprRest(s, acc, i) ==
    IF i <= Len(s) /\ s[i] \in {"+", "-"}
    THEN LET t == StdTerm(s, i + 1)
         IN  IF ~t.ok \/ ~Exact(acc) \/ ~Exact(t.val) THEN NoParse
             ELSE IF s[i] = "+"
             THEN StdExprRest(s, Rat(acc.n * t.val.d + t.val.n * acc.d, acc.d * t.val.d),
                              t.next)
             ELSE StdExprRest(s, Rat(acc.n * t.val.d - t.val.n * acc.d, acc.d * t.val.d),
                              t.next)
    ELSE [ok |-> TRUE, val |-> acc, next |-> i]

StdExpr(s, i) ==
    LET t == StdTerm(s, i) IN IF t.ok THEN StdExprRest(s, t.val, t.next) ELSE NoParse

StdEval(s) ==
    LET e == StdExpr(s, 1) IN IF e.ok /\ e.next = Len(s) + 1 THEN e ELSE NoParse

Returned == pc \in {"done", "panic"}

\* C1: for every well-formed expression over number literals, + - * / and
\* balanced parentheses, EvaluateExpression returns the value of standard infix
\* evaluation (* and / before + and -, equal precedence left to right).
C1_StandardInfix ==
    (Returned /\ StdEval(input).ok)
        => (pc = "done" /\ err = "" /\ result = StdEval(input).val)

Readme ==
    <<"(", "1", "+", "2", ")", "*", "s", "q", "r", "t", "(", "4", ")", "-",
      "l", "o", "g", "(", "1", ")", "+", "3", "!", "*", "2", "^", "2">>

\* C2: the README's (1+2)*sqrt(4)-log(1)+3!*2^2 evaluates to 14 with no error,
\* and 2+2 to 4.
C2_ReadmeExample ==
    Returned =>
        /\ input = Readme => (pc = "done" /\ err = "" /\ result = Num(14))
        /\ input = <<"2", "+", "2">> => (pc = "done" /\ err = "" /\ result = Num(4))

Functions ==
    { <<"s", "q", "r", "t">>, <<"l", "o", "g">>, <<"s", "i", "n">>,
      <<"c", "o", "s">>, <<"t", "a", "n">> }

InfixOperators == { <<"+">>, <<"-">>, <<"*">>, <<"/">>, <<"%">>, <<"^">> }

\* s is f ( E ) with E a well-formed expression
IsCall(s, f) ==
    /\ Len(s) > Len(f) + 2
    /\ SubSeq(s, 1, Len(f)) = f
    /\ s[Len(f) + 1] = "("
    /\ s[Len(s)] = ")"
    /\ StdEval(SubSeq(s, Len(f) + 2, Len(s) - 1)).ok

CallValue(s, f) == Evaluate(f, StdEval(SubSeq(s, Len(f) + 2, Len(s) - 1)).val, Zero).val

\* C3: an expression that is a function call alone, f(E), is accepted and
\* evaluates to f applied to the value of E (sqrt(4) gives 2).
C3_FunctionCallAlone ==
    \A f \in Functions :
        (Returned /\ IsCall(input, f))
            => (pc = "done" /\ err = "" /\ result = CallValue(input, f))

\* s is a number literal followed by !
IsFactorialOfLiteral(s) ==
    /\ Len(s) >= 2
    /\ Len(s) <= 10
    /\ s[Len(s)] = "!"
    /\ \A i \in 1..Len(s) - 1 : s[i] \in Digits

\* C4: a number literal followed by ! is accepted and evaluates to the
\* factorial of the literal (5! gives 120, 0! gives 1).
C4_FactorialOfLiteral ==
    (Returned /\ IsFactorialOfLiteral(input))
        => /\ pc = "done"
           /\ err = ""
           /\ result = Num(FactorialLoop(1, Decimal(SubSeq(input, 1, Len(input) - 1)), 1))

\* the parenthesis depth after each prefix of s never drops below 0 and ends at 0
RECURSIVE BalancedFrom(_, _, _)
BalancedFrom(s, i, depth) ==
    IF depth < 0 THEN FALSE
    ELSE IF i > Len(s) THEN depth = 0
    ELSE BalancedFrom(s, i + 1,
                      IF s[i] = "(" THEN depth + 1
                      ELSE IF s[i] = ")" THEN depth - 1 ELSE depth)

Balanced(s) == BalancedFrom(s, 1, 0)

\* C5: an expression whose parentheses are not balanced, in either direction,
\* is rejected with an error and yields no result.
C5_UnbalancedRejected ==
    (pc = "done" /\ ~Balanced(input)) => err # ""

\* C6: when tokenization, validation and conversion succeed the postfix
\* sequence is not empty, and stack[0] is never read from an empty stack.
C6_NoEmptyStackRead ==
    /\ pc = "evaluate" => Len(polishNotation) > 0
    /\ pc # "panic"

\* what the call returned: the result, the error, or the panic
Outcome == [result |-> result, err |-> err, panic |-> pc = "panic"]

OutcomeOf(expression) ==
    LET e == EvaluateExpression(expression)
    IN  [result |-> e.result, err |-> e.err, panic |-> e.panic]

\* C7: spaces between adjacent tokens (leading and trailing ones too) leave the
\* result or the failure what it is without them; a space inside a
\* multi-character operator or between the digits of a number makes the
\* evaluation fail with an error.
C7_SpacesBetweenTokens ==
    Returned =>
        /\ spacing = "between" => Outcome = OutcomeOf(ref)
        /\ spacing = "inside" => (pc = "done" /\ err # "")

\* 2  +  2 has returned 4
C7_Witness ==
    /\ pc = "done"
    /\ spacing = "between"
    /\ input = <<"2", " ", " ", "+", " ", " ", "2">>
    /\ ref = <<"2", "+", "2">>
    /\ err = ""
    /\ result = Num(4)

\* the next postfix token is / and the operand on top of the stack is exactly 0
DivisionByZeroNext ==
    /\ pc = "evaluate"
    /\ index < Len(polishNotation)
    /\ polishNotation[index + 1].tokenType = operator
    /\ polishNotation[index + 1].value = <<"/">>
    /\ Len(stack) >= 2
    /\ IsZero(stack[Len(stack)])

\* C8: when / is applied to a right operand that is exactly 0 the call returns
\* the error "division by zero" and no numeric result at that step, and nothing
\* is evaluated after the return.
C8_DivisionByZeroAborts ==
    [][ /\ DivisionByZeroNext =>
              (pc' = "done" /\ err' = "division by zero" /\ result' = Zero
               /\ index' = index)
        /\ pc # "done" ]_vars

\* 1/0-1: the division failed with postfix tokens left
C8_Witness ==
    /\ pc = "done"
    /\ err = "division by zero"
    /\ result = Zero
    /\ polishNotation[index + 1].value = <<"/">>
    /\ index + 1 < Len(polishNotation)

\* C9: when a result is returned without error the operand stack holds exactly
\* one value, the result.
C9_SingleOperandLeft ==
    (pc = "done" /\ err = "") => (Len(stack) = 1 /\ result = stack[1])

\* s is a op f ( E ): a an integer literal, op an infix operator, f a function
IsInfixThenCall(s, i, op, f) ==
    /\ i >= 1
    /\ i <= 9
    /\ Len(s) > i + 1
    /\ \A j \in 1..i : s[j] \in Digits
    /\ s[i + 1] = op[1]
    /\ IsCall(SubSeq(s, i + 2, Len(s)), f)

InfixThenCallValue(s, i, op, f) ==
    Evaluate(op, Num(Decimal(SubSeq(s, 1, i))), CallValue(SubSeq(s, i + 2, Len(s)), f))

\* C10: a op f(E) evaluates to a op (f applied to the value of E) for every
\* function f and every infix operator op, ^ included (2^sqrt(4) gives 4).
C10_InfixThenFunction ==
    \A i \in 1..Len(input), op \in InfixOperators, f \in Functions :
        (Returned /\ IsInfixThenCall(input, i, op, f)
                  /\ InfixThenCallValue(input, i, op, f).err = "")
            => /\ pc = "done"
               /\ err = ""
               /\ result = InfixThenCallValue(input, i, op, f).val

(***************************************************************************)
(* toReversePolishNotation called on its own, on any token sequence        *)
(***************************************************************************)
RpnLexemes == { <<"1">>, <<"2">>, <<"+">>, <<"/">>, <<"^">>, <<"(">>, <<")">> }

\* the token of lexeme l at position i of the sequence
TokenOf(l, i) ==
    Token(IF IsNumberLexeme(l) THEN number
          ELSE IF l = <<"(">> THEN leftParen
          ELSE IF l = <<")">> THEN rightParen
          ELSE operator,
          l, i - 1, i - 1)

InitRpn ==
    \E ls \in SeqsUpTo(RpnLexemes, MaxRpnLen) :
        /\ input = Concat(ls)
        /\ ref = Concat(ls)
        /\ spacing = "none"
        /\ pc = "toRPN"
        /\ index = 0
        /\ tokens = [i \in 1..Len(ls) |-> TokenOf(ls[i], i)]
        /\ operatorBuilder = <<>>
        /\ numberBuilder = <<>>
        /\ iterator = 0
        /\ rpnStack = <<>>
        /\ polishNotation = <<>>
        /\ stack = <<>>
        /\ result = Zero
        /\ err = ""

NextRpn ==
    \/ RpnToken
    \/ RpnEnd

SpecRpn == InitRpn /\ [][NextRpn]_vars

IsParenToken(t) == t.tokenType = leftParen \/ t.tokenType = rightParen

\* how many times t occurs in ts
Count(ts, t) == Cardinality({i \in 1..Len(ts) : ts[i] = t})

\* out holds no parenthesis, each number and operator token of in as often as
\* in does, and the numbers in the order of in
IsPostfixOf(out, in) ==
    /\ \A i \in 1..Len(out) : ~IsParenToken(out[i])
    /\ \A i \in 1..Len(in) : ~IsParenToken(in[i]) => Count(out, in[i]) = Count(in, in[i])
    /\ Len(out) = Cardinality({i \in 1..Len(in) : ~IsParenToken(in[i])})
    /\ SelectSeq(out, LAMBDA t : t.tokenType = number)
         = SelectSeq(in, LAMBDA t : t.tokenType = number)

\* every input token is consumed
InputConsumed == pc = "toRPN" /\ index = Len(tokens)

LeftParenOnStack == \E i \in 1..Len(rpnStack) : rpnStack[i].tokenType = leftParen

\* C11: when toReversePolishNotation succeeds its output has no parenthesis
\* token and each Number and Operator token of the input exactly once, the
\* Numbers in their input order; it fails with "mismatched parentheses" exactly
\* when a left parenthesis is on the stack once the input is consumed.
C11_PostfixPermutation ==
    [][ /\ (pc' = "done" /\ err' = "mismatched parentheses")
              <=> (InputConsumed /\ LeftParenOnStack)
        /\ (InputConsumed /\ ~LeftParenOnStack)
              => (pc' = "evaluate" /\ err' = "" /\ IsPostfixOf(polishNotation', tokens)) ]_vars

\* ( 1 + 2 ) was converted to 1 2 +
C11_Witness ==
    /\ pc = "evaluate"
    /\ input = <<"(", "1", "+", "2", ")">>
    /\ Len(polishNotation) = 3
    /\ polishNotation[1] = tokens[2]
    /\ polishNotation[2] = tokens[4]
    /\ polishNotation[3] = tokens[3]

=============================================================================
